---- MODULE Spec2Model ----
(***************************************************************************)
(* A model of the resource package: Split, the Resolvers registry, the     *)
(* SchemeResolver dispatcher, the terminal resolvers, the TemplateResolver *)
(* decorator and the HTTP resource handle.                                 *)
(*                                                                         *)
(* A Go string is modelled as a sequence of one-character strings, so that *)
(* indexing and slicing are the operations the code performs.              *)
(***************************************************************************)
EXTENDS Integers, Sequences, FiniteSets, TLC

VARIABLES
    splitIn,      \* SpecSplit: the (scheme, value) pair the input is built from
    splitPc,      \* SpecSplit: "start", "bare" or "joined"
    splitOut,     \* SpecSplit: the (scheme, value) pair Split returned
    srResolvers,  \* SchemeResolver.Resolvers: [nil, m], m the map's contents
    srNoScheme,   \* SchemeResolver.NoScheme: a strategy or NilResolver
    lastSet,      \* history: per key, the strategy of the latest Set (or of the literal)
    opName,       \* the operation that ran last: "Set", "Get", "Resolve", "TemplateResolve"
    opArg,        \* its string argument (the key, or the resource string)
    opSet,        \* Set only: [ptrNil, mapNil, r]: the receiver was a nil pointer,
                  \* or pointed at a nil map, and the strategy given
    panicked,     \* whether the operation ended in a run-time panic
    getOut,       \* Get only: [r, ok]
    result,       \* Resolve only: [handle, err]
    calls,        \* Resolve only: the terminal strategies invoked, [resolver, arg, ret]
    innerArgs,    \* TemplateResolve only: the strings handed to the decorated Resolver
    tInput,       \* SpecTemplate: per caller, the string given to Resolve
    tPc,          \* SpecTemplate: per caller, the position within Resolve
    parseLock,    \* SpecTemplate: tr.parseLock, 0 or the caller holding it
    tmplText,     \* SpecTemplate: the text tr.Template was parsed from last
    tmplEscaped,  \* SpecTemplate: tr.Template has been executed
    tParsed,      \* SpecTemplate: per caller, what parse returned: "nil", "shared", "error"
    tReceived,    \* SpecTemplate: per caller, the strings the decorated Resolver got
    hHandle,      \* SpecHTTP: the HTTP resource handle
    hOp,          \* SpecHTTP: the operation that ran last: "Open", "WriteTo", "Read", "Close"
    resp,         \* SpecHTTP: the latest transaction: [failed, status]
    body,         \* SpecHTTP: its response body: [data, pos, closed, posAtClose]
    streamOpen,   \* SpecHTTP: the caller holds the stream Open returned, not yet closed
    openRet,      \* SpecHTTP: what Open returned: [stream, err]
    writeRet,     \* SpecHTTP: what WriteTo returned: [n, err]
    sink          \* SpecHTTP: the bytes WriteTo wrote to the caller's writer

splitVars == <<splitIn, splitPc, splitOut>>

dispVars == <<srResolvers, srNoScheme, lastSet, opName, opArg, opSet, panicked,
              getOut, result, calls, innerArgs>>

tmplVars == <<tInput, tPc, parseLock, tmplText, tmplEscaped, tParsed, tReceived>>

httpVars == <<hHandle, hOp, resp, body, streamOpen, openRet, writeRet, sink>>

vars == <<splitVars, dispVars, tmplVars, httpVars>>

(***************************************************************************)
(* Bounds.                                                                 *)
(***************************************************************************)
MaxLen == 3
NumCallers == 2

(***************************************************************************)
(* Strings.                                                                *)
(***************************************************************************)
SplitChars == {":", "/", "a"}

RECURSIVE StringsUpTo(_, _)
StringsUpTo(chars, n) ==
    IF n = 0 THEN {<<>>}
    ELSE LET shorter == StringsUpTo(chars, n - 1)
         IN  shorter \cup {Append(s, c) : s \in shorter, c \in chars}

\* src/unnamed/part_000:9
SchemeSeparator == <<":", "/", "/">>

\* strings.Index(v, sep): the index (0-based) of the first occurrence of sep
\* in v, or -1.
Index(v, sep) ==
    LET hits == {i \in 0..(Len(v) - Len(sep)) :
                    SubSeq(v, i + 1, i + Len(sep)) = sep}
    IN  IF hits = {} THEN -1
        ELSE CHOOSE i \in hits : \A j \in hits : i <= j

\* strings.LastIndex(v, sep)
LastIndex(v, sep) ==
    LET hits == {i \in 0..(Len(v) - Len(sep)) :
                    SubSeq(v, i + 1, i + Len(sep)) = sep}
    IN  IF hits = {} THEN -1
        ELSE CHOOSE i \in hits : \A j \in hits : i >= j

Contains(v, sep) == Index(v, sep) >= 0

\* Split cutting at the last separator instead of the first.
SplitAtLast(v) ==
    LET i == LastIndex(v, SchemeSeparator)
    IN  IF i >= 0
        THEN <<SubSeq(v, 1, i), SubSeq(v, i + Len(SchemeSeparator) + 1, Len(v))>>
        ELSE <<<<>>, v>>

\* func Split(v string) (scheme, value string)
Split(v) ==
    LET i == Index(v, SchemeSeparator)
    IN  IF i >= 0
        THEN <<SubSeq(v, 1, i), SubSeq(v, i + Len(SchemeSeparator) + 1, Len(v))>>
        ELSE <<<<>>, v>>

(***************************************************************************)
(* Resource handles and errors.  A handle is [kind, str, bytes, method]:   *)
(* String(str), Bytes(bytes), File(str), HTTP{URL: str, OpenMethod:        *)
(* method}; the nil Interface has kind "nil".  An error is                 *)
(* [kind, Value, Scheme]; the nil error has kind "nil".                    *)
(***************************************************************************)
NilHandle == [kind |-> "nil", str |-> <<>>, bytes |-> <<>>, method |-> <<>>]

NilError == [kind |-> "nil", Value |-> <<>>, Scheme |-> <<>>]

\* type String string
String(s) == [kind |-> "String", str |-> s, bytes |-> <<>>, method |-> <<>>]

\* type Bytes []byte
Bytes(b) == [kind |-> "Bytes", str |-> <<>>, bytes |-> b, method |-> <<>>]

\* type File string
File(p) == [kind |-> "File", str |-> p, bytes |-> <<>>, method |-> <<>>]

\* type HTTP struct (the Client is left out: every resolver here has none)
HTTP(url, method) == [kind |-> "HTTP", str |-> url, bytes |-> <<>>, method |-> method]

\* SchemeError{Value, Scheme}
SchemeError(v, scheme) == [kind |-> "SchemeError", Value |-> v, Scheme |-> scheme]

\* NoSchemeError{Value}
NoSchemeError(v) == [kind |-> "NoSchemeError", Value |-> v, Scheme |-> <<>>]

\* An error of a collaborator (base64, filepath, url, template), passed through.
ForeignError(kind) == [kind |-> kind, Value |-> <<>>, Scheme |-> <<>>]

Ret(h, e) == [handle |-> h, err |-> e]

(***************************************************************************)
(* Resolution strategies: [kind, Root, OpenMethod].                        *)
(***************************************************************************)
NilResolver == [kind |-> "nil", Root |-> <<>>, OpenMethod |-> <<>>]

StringResolver == [kind |-> "StringResolver", Root |-> <<>>, OpenMethod |-> <<>>]

BytesResolver == [kind |-> "BytesResolver", Root |-> <<>>, OpenMethod |-> <<>>]

FileResolver(root) == [kind |-> "FileResolver", Root |-> root, OpenMethod |-> <<>>]

HTTPResolver(method) == [kind |-> "HTTPResolver", Root |-> <<>>, OpenMethod |-> method]

\* func (r StringResolver) Resolve(v string) (Interface, error)
StringResolve(v) == Ret(String(Split(v)[2]), NilError)

(***************************************************************************)
(* base64.StdEncoding.DecodeString: quanta of four characters, "=" padding *)
(* only at the end of the last quantum, every other character in the       *)
(* alphabet.                                                               *)
(***************************************************************************)
B64Alphabet ==
    <<"A", "B", "C", "D", "E", "F", "G", "H", "I", "J", "K", "L", "M", "N", "O", "P",
      "Q", "R", "S", "T", "U", "V", "W", "X", "Y", "Z", "a", "b", "c", "d", "e", "f",
      "g", "h", "i", "j", "k", "l", "m", "n", "o", "p", "q", "r", "s", "t", "u", "v",
      "w", "x", "y", "z", "0", "1", "2", "3", "4", "5", "6", "7", "8", "9", "+", "/">>

B64Chars == {B64Alphabet[i] : i \in 1..64}

B64Val(c) == (CHOOSE i \in 1..64 : B64Alphabet[i] = c) - 1

B64Valid(v) ==
    /\ Len(v) % 4 = 0
    /\ \A i \in 1..Len(v) :
          \/ v[i] \in B64Chars
          \/ /\ v[i] = "="
             /\ i >= Len(v) - 1
             /\ i = Len(v) - 1 => v[Len(v)] = "="

\* The bytes of one quantum q (four characters, padding included).
B64Quantum(q) ==
    LET a == B64Val(q[1])
        b == B64Val(q[2])
        b1 == a * 4 + (b \div 16)
    IN  IF q[3] = "=" THEN <<b1>>
        ELSE LET c == B64Val(q[3])
                 b2 == (b % 16) * 16 + (c \div 4)
             IN  IF q[4] = "=" THEN <<b1, b2>>
                 ELSE <<b1, b2, (c % 4) * 64 + B64Val(q[4])>>

RECURSIVE B64Decode(_)
B64Decode(v) ==
    IF Len(v) = 0 THEN <<>>
    ELSE B64Quantum(SubSeq(v, 1, 4)) \o B64Decode(SubSeq(v, 5, Len(v)))

\* func (r BytesResolver) Resolve(v string) (Interface, error), Encoding nil
BytesResolve(v) ==
    LET value == Split(v)[2]
    IN  IF B64Valid(value)
        THEN Ret(Bytes(B64Decode(value)), NilError)
        ELSE Ret(NilHandle, ForeignError("base64.CorruptInputError"))

(***************************************************************************)
(* path/filepath on a Unix system, for paths without "." and ".."          *)
(* elements: Clean collapses repeated separators and drops a trailing one. *)
(***************************************************************************)
RECURSIVE Collapse(_)
Collapse(p) ==
    IF Len(p) = 0 THEN <<>>
    ELSE IF p[1] = "/" /\ (Len(p) = 1 \/ p[2] = "/")
         THEN IF Len(p) = 1 THEN <<>> ELSE Collapse(Tail(p))
         ELSE <<p[1]>> \o Collapse(Tail(p))

IsAbs(p) == Len(p) > 0 /\ p[1] = "/"

\* filepath.Clean
Clean(p) ==
    LET c == Collapse(p)
    IN  IF Len(p) = 0 THEN <<".">>
        ELSE IF Len(c) = 0 THEN <<"/">>
        ELSE c

\* filepath.Join(a, b)
Join(a, b) ==
    IF Len(a) = 0 /\ Len(b) = 0 THEN <<>>
    ELSE IF Len(a) = 0 THEN Clean(b)
    ELSE IF Len(b) = 0 THEN Clean(a)
    ELSE Clean(a \o <<"/">> \o b)

\* os.Getwd, when it succeeds
WorkDir == <<"/", "w">>

\* func (r FileResolver) Resolve(v string) (Interface, error); cwdOk: whether
\* os.Getwd succeeds, which filepath.Abs needs for a relative path only.
FileResolve(r, v, cwdOk) ==
    LET p == Join(r.Root, Split(v)[2])
    IN  IF IsAbs(p) THEN Ret(File(Clean(p)), NilError)
        ELSE IF ~cwdOk THEN Ret(NilHandle, ForeignError("os.GetwdError"))
        ELSE Ret(File(Join(WorkDir, p)), NilError)

(***************************************************************************)
(* net/url.Parse, as far as the strings of this model exercise it: a       *)
(* leading ":" is a missing protocol scheme, and a "%" not followed by two *)
(* hexadecimal digits is an invalid escape.                                *)
(***************************************************************************)
HexDigits == {"0", "1", "2", "3", "4", "5", "6", "7", "8", "9",
              "a", "b", "c", "d", "e", "f", "A", "B", "C", "D", "E", "F"}

URLParseFails(v) ==
    \/ Len(v) > 0 /\ v[1] = ":"
    \/ \E i \in 1..Len(v) :
          /\ v[i] = "%"
          /\ ~(i + 2 <= Len(v) /\ v[i + 1] \in HexDigits /\ v[i + 2] \in HexDigits)

\* func (r HTTPResolver) Resolve(v string) (Interface, error)
HTTPResolve(r, v) ==
    IF URLParseFails(v)
    THEN Ret(NilHandle, ForeignError("url.Error"))
    ELSE Ret(HTTP(v, r.OpenMethod), NilError)

\* resolver.Resolve(v) through the Resolver interface
Invoke(r, v, cwdOk) ==
    CASE r.kind = "StringResolver" -> StringResolve(v)
      [] r.kind = "BytesResolver" -> BytesResolve(v)
      [] r.kind = "FileResolver" -> FileResolve(r, v, cwdOk)
      [] r.kind = "HTTPResolver" -> HTTPResolve(r, v)

(***************************************************************************)
(* The registry: type Resolvers map[string]Resolver, as [nil, m].  A nil   *)
(* map has no entries.                                                     *)
(***************************************************************************)
StringScheme == <<"s", "t", "r", "i", "n", "g">>
BytesScheme == <<"b", "y", "t", "e", "s">>
FileScheme == <<"f", "i", "l", "e">>
HTTPScheme == <<"h", "t", "t", "p">>
HTTPSScheme == <<"h", "t", "t", "p", "s">>

NoEntries == [k \in {} |-> NilResolver]

NilMap == [nil |-> TRUE, m |-> NoEntries]

\* make(Resolvers)
EmptyMap == [nil |-> FALSE, m |-> NoEntries]

\* func DefaultSchemeResolvers() Resolvers
DefaultSchemeResolvers ==
    [nil |-> FALSE,
     m |-> [k \in {StringScheme, BytesScheme, FileScheme, HTTPScheme, HTTPSScheme} |->
              CASE k = StringScheme -> StringResolver
                [] k = BytesScheme -> BytesResolver
                [] k = FileScheme -> FileResolver(<<>>)
                [] k = HTTPScheme -> HTTPResolver(<<>>)
                [] k = HTTPSScheme -> HTTPResolver(<<>>)]]

\* Get that ignores the case of the key's first letter.
GetFolded(rs, k) ==
    LET fold(x) == IF Len(x) > 0 /\ x[1] = "F" THEN <<"f">> \o Tail(x) ELSE x
    IN  IF Cardinality(DOMAIN rs.m) > 0 /\ fold(k) \in DOMAIN rs.m
        THEN [r |-> rs.m[fold(k)], ok |-> TRUE]
        ELSE [r |-> NilResolver, ok |-> FALSE]

\* func (rs Resolvers) Get(k string) (Resolver, bool)
Get(rs, k) ==
    IF Cardinality(DOMAIN rs.m) > 0
    THEN IF k \in DOMAIN rs.m
         THEN [r |-> rs.m[k], ok |-> TRUE]
         ELSE [r |-> NilResolver, ok |-> FALSE]
    ELSE [r |-> NilResolver, ok |-> FALSE]

\* func (rs *Resolvers) Set(k string, r Resolver).  ptrNil: the receiver is a
\* nil *Resolvers; otherwise it points at the registry rs.  "rs == nil" tests
\* the pointer: for a nil pointer "*rs = make(Resolvers)" dereferences it, and
\* for a pointer to a nil map nothing is made and the assignment writes to a
\* nil map.  Both end in a run-time panic and leave the registry as it was.
SetMap(ptrNil, rs, k, r) ==
    IF ptrNil
    THEN [panic |-> TRUE, rs |-> rs]
    ELSE IF rs.nil
    THEN [panic |-> TRUE, rs |-> rs]
    ELSE [panic |-> FALSE,
          rs |-> [nil |-> FALSE,
                  m |-> [x \in DOMAIN rs.m \cup {k} |-> IF x = k THEN r ELSE rs.m[x]]]]

(***************************************************************************)
(* SchemeResolver.                                                         *)
(***************************************************************************)
Failed(e) == [ret |-> Ret(NilHandle, e), calls |-> <<>>]

\* Delegation that hands the strategy the value Split left, not the input.
DelegateSplitValue(r, v, cwdOk) ==
    LET ret == Invoke(r, Split(v)[2], cwdOk)
    IN  [ret |-> ret, calls |-> <<[resolver |-> r, arg |-> Split(v)[2], ret |-> ret]>>]

\* return resolver.Resolve(v): the strategy is called once, with v, and what
\* it returns is what the caller gets.
Delegate(r, v, cwdOk) ==
    LET ret == Invoke(r, v, cwdOk)
    IN  [ret |-> ret, calls |-> <<[resolver |-> r, arg |-> v, ret |-> ret]>>]

\* Resolve that falls back to NoScheme when the scheme is not registered.
SchemeResolveFallback(rs, noScheme, v, cwdOk) ==
    LET scheme == Split(v)[1]
        g == Get(rs, scheme)
    IN  IF Len(scheme) > 0 /\ g.ok
        THEN Delegate(g.r, v, cwdOk)
        ELSE IF noScheme = NilResolver
        THEN Failed(IF Len(scheme) > 0 THEN SchemeError(v, scheme) ELSE NoSchemeError(v))
        ELSE Delegate(noScheme, v, cwdOk)

\* Resolve that looks the empty scheme up in the registry like any other.
SchemeResolveLookupEmpty(rs, noScheme, v, cwdOk) ==
    LET scheme == Split(v)[1]
        g == Get(rs, scheme)
    IN  IF g.ok
        THEN Delegate(g.r, v, cwdOk)
        ELSE IF Len(scheme) > 0
        THEN Failed(SchemeError(v, scheme))
        ELSE IF noScheme = NilResolver
        THEN Failed(NoSchemeError(v))
        ELSE Delegate(noScheme, v, cwdOk)

\* func (sr SchemeResolver) Resolve(v string) (Interface, error)
SchemeResolve(rs, noScheme, v, cwdOk) ==
    LET scheme == Split(v)[1]
    IN  IF Len(scheme) > 0
        THEN LET g == Get(rs, scheme)
             IN  IF ~g.ok
                 THEN Failed(SchemeError(v, scheme))
                 ELSE Delegate(g.r, v, cwdOk)
        ELSE IF noScheme = NilResolver
        THEN Failed(NoSchemeError(v))
        ELSE Delegate(noScheme, v, cwdOk)

(***************************************************************************)
(* TemplateResolver.  A template text is a string in which an action is    *)
(* one element: "{{.}}" prints the data, "{{env K}}", "{{env K D}}" and    *)
(* "{{env K D D}}" call Getenv with no, one and two defaults, and "{{" is  *)
(* an action that is never closed.                                         *)
(***************************************************************************)
EnvDefault == <<"f", "i", "l", "e">>

\* TemplateResolver.Data, here always a string
TrData == <<"a", "&">>

\* func Getenv(key string, def ...string) (string, error); osValue is
\* os.Getenv(key)
Getenv(osValue, def) ==
    IF Len(def) > 1 THEN [out |-> <<>>, ok |-> FALSE]
    ELSE IF Len(osValue) > 0 THEN [out |-> osValue, ok |-> TRUE]
    ELSE IF Len(def) > 0 THEN [out |-> def[1], ok |-> TRUE]
    ELSE [out |-> <<>>, ok |-> TRUE]

\* html/template escapes what an action prints into text
RECURSIVE HTMLEscape(_)
HTMLEscape(s) ==
    IF Len(s) = 0 THEN <<>>
    ELSE (IF s[1] = "&" THEN <<"&", "a", "m", "p", ";">> ELSE <<s[1]>>)
         \o HTMLEscape(Tail(s))

\* Template.Parse(v) fails
ParseFails(v) == \E i \in 1..Len(v) : v[i] = "{{"

ExecElement(c, osValue) ==
    CASE c = "{{.}}" -> [out |-> HTMLEscape(TrData), ok |-> TRUE]
      [] c = "{{env K}}" ->
            LET g == Getenv(osValue, <<>>)
            IN  [out |-> HTMLEscape(g.out), ok |-> g.ok]
      [] c = "{{env K D}}" ->
            LET g == Getenv(osValue, <<EnvDefault>>)
            IN  [out |-> HTMLEscape(g.out), ok |-> g.ok]
      [] c = "{{env K D D}}" ->
            LET g == Getenv(osValue, <<EnvDefault, EnvDefault>>)
            IN  [out |-> HTMLEscape(g.out), ok |-> g.ok]
      [] OTHER -> [out |-> <<c>>, ok |-> TRUE]

\* t.Execute(&output, tr.Data) of the template parsed from text
RECURSIVE Execute(_, _)
Execute(text, osValue) ==
    IF Len(text) = 0 THEN [out |-> <<>>, ok |-> TRUE]
    ELSE LET head == ExecElement(text[1], osValue)
             rest == Execute(Tail(text), osValue)
         IN  IF head.ok /\ rest.ok
             THEN [out |-> head.out \o rest.out, ok |-> TRUE]
             ELSE [out |-> <<>>, ok |-> FALSE]

TemplateFailed(e) == [ret |-> Ret(NilHandle, e), calls |-> <<>>, innerArgs |-> <<>>]

\* TemplateResolver.Resolve that ignores the error of Execute.
TemplateResolveIgnoringExecError(rs, noScheme, v, osValue, cwdOk) ==
    IF ParseFails(v)
    THEN TemplateFailed(ForeignError("template.ParseError"))
    ELSE LET x == Execute(v, osValue)
             inner == SchemeResolve(rs, noScheme, x.out, cwdOk)
         IN  [ret |-> Ret(inner.ret.handle,
                          IF x.ok THEN inner.ret.err
                          ELSE ForeignError("template.ExecError")),
              calls |-> inner.calls,
              innerArgs |-> <<x.out>>]

\* func (tr *TemplateResolver) Resolve(v string) (Interface, error), with
\* tr.Template nil (a fresh template per call) and tr.Resolver the
\* SchemeResolver
TemplateResolve(rs, noScheme, v, osValue, cwdOk) ==
    IF ParseFails(v)
    THEN TemplateFailed(ForeignError("template.ParseError"))
    ELSE LET x == Execute(v, osValue)
         IN  IF ~x.ok
             THEN TemplateFailed(ForeignError("template.ExecError"))
             ELSE LET inner == SchemeResolve(rs, noScheme, x.out, cwdOk)
                  IN  [ret |-> inner.ret,
                       calls |-> inner.calls,
                       innerArgs |-> <<x.out>>]

(***************************************************************************)
(* Spec: one caller working a SchemeResolver: Set and Get on its registry, *)
(* Resolve on the dispatcher, and Resolve on a TemplateResolver around it. *)
(***************************************************************************)
Foo == <<"f", "o", "o">>
FooUpper == <<"F", "o", "o">>

DefaultKeys == {StringScheme, BytesScheme, FileScheme, HTTPScheme, HTTPSScheme}
SetKeys == {Foo, <<>>}
AllKeys == DefaultKeys \cup SetKeys \cup {FooUpper}
SetStrategies == {StringResolver, FileResolver(<<"/", "r">>)}

Values == {<<"a">>, <<"%">>, <<"Q", "Q", "=", "=">>}

InputSchemes == {StringScheme, BytesScheme, FileScheme, HTTPScheme, Foo, FooUpper}

ResolveInputs ==
    Values
    \cup {k \o SchemeSeparator \o v : k \in InputSchemes, v \in Values}
    \cup {<<>>, StringScheme \o SchemeSeparator \o <<"a">> \o SchemeSeparator \o <<"a">>}

TemplateActions == {"{{.}}", "{{env K}}", "{{env K D}}", "{{env K D D}}", "{{"}

TemplateInputs ==
    {<<a>> \o SchemeSeparator \o <<"a">> : a \in TemplateActions}
    \cup {StringScheme \o SchemeSeparator \o <<a>> : a \in {"{{.}}", "{{env K D D}}"}}
    \cup {<<"a">>, BytesScheme \o SchemeSeparator \o <<"a">>}

OsValues == {<<>>, Foo}

NoSet == [ptrNil |-> FALSE, mapNil |-> FALSE, r |-> NilResolver]

IdleDisp ==
    /\ opName = "none"
    /\ opArg = <<>>
    /\ opSet = NoSet
    /\ panicked = FALSE
    /\ getOut = [r |-> NilResolver, ok |-> FALSE]
    /\ result = Ret(NilHandle, NilError)
    /\ calls = <<>>
    /\ innerArgs = <<>>

IdleSplit ==
    /\ splitIn = <<<<>>, <<>>>>
    /\ splitPc = "idle"
    /\ splitOut = <<<<>>, <<>>>>

IdleTmpl ==
    /\ tInput = <<>>
    /\ tPc = <<>>
    /\ parseLock = 0
    /\ tmplText = <<>>
    /\ tmplEscaped = FALSE
    /\ tParsed = <<>>
    /\ tReceived = <<>>

\* HTTPError{URL, Code}; the nil error has an empty URL and code 0
HTTPError(url, code) == [kind |-> "HTTPError", URL |-> url, Code |-> code]

NoHTTPError == [kind |-> "nil", URL |-> <<>>, Code |-> 0]

TransportError == [kind |-> "transport", URL |-> <<>>, Code |-> 0]

NoBody == [data |-> <<>>, pos |-> 0, closed |-> FALSE, posAtClose |-> 0]

IdleHTTP ==
    /\ hHandle = NilHandle
    /\ hOp = "none"
    /\ resp = [failed |-> FALSE, status |-> 0]
    /\ body = NoBody
    /\ streamOpen = FALSE
    /\ openRet = [stream |-> FALSE, err |-> NoHTTPError]
    /\ writeRet = [n |-> 0, err |-> NoHTTPError]
    /\ sink = <<>>

Init ==
    /\ srResolvers \in {NilMap, EmptyMap, DefaultSchemeResolvers}
    /\ srNoScheme \in {NilResolver, FileResolver(<<>>)}
    /\ lastSet = [k \in AllKeys |->
                    IF k \in DOMAIN srResolvers.m THEN srResolvers.m[k]
                    ELSE NilResolver]
    /\ IdleDisp
    /\ IdleSplit
    /\ IdleTmpl
    /\ IdleHTTP

\* p.Set(k, r), p a nil *Resolvers or &sr.Resolvers
Set(ptrNil, k, r) ==
    LET s == SetMap(ptrNil, srResolvers, k, r)
    IN  /\ srResolvers' = s.rs
        /\ panicked' = s.panic
        /\ lastSet' = IF ptrNil THEN lastSet ELSE [lastSet EXCEPT ![k] = r]
        /\ opName' = "Set"
        /\ opArg' = k
        /\ opSet' = [ptrNil |-> ptrNil, mapNil |-> ~ptrNil /\ srResolvers.nil, r |-> r]
        /\ getOut' = [r |-> NilResolver, ok |-> FALSE]
        /\ result' = Ret(NilHandle, NilError)
        /\ calls' = <<>>
        /\ innerArgs' = <<>>
        /\ UNCHANGED <<srNoScheme, splitVars, tmplVars, httpVars>>

\* sr.Resolvers.Get(k)
GetKey(k) ==
    /\ getOut' = Get(srResolvers, k)
    /\ opName' = "Get"
    /\ opArg' = k
    /\ opSet' = NoSet
    /\ panicked' = FALSE
    /\ result' = Ret(NilHandle, NilError)
    /\ calls' = <<>>
    /\ innerArgs' = <<>>
    /\ UNCHANGED <<srResolvers, srNoScheme, lastSet, splitVars, tmplVars, httpVars>>

\* sr.Resolve(v)
Resolve(v, cwdOk) ==
    LET x == SchemeResolve(srResolvers, srNoScheme, v, cwdOk)
    IN  /\ result' = x.ret
        /\ calls' = x.calls
        /\ innerArgs' = <<>>
        /\ opName' = "Resolve"
        /\ opArg' = v
        /\ opSet' = NoSet
        /\ panicked' = FALSE
        /\ getOut' = [r |-> NilResolver, ok |-> FALSE]
        /\ UNCHANGED <<srResolvers, srNoScheme, lastSet, splitVars, tmplVars, httpVars>>

\* (&TemplateResolver{Resolver: sr}).Resolve(v)
ResolveTemplate(v, osValue, cwdOk) ==
    LET x == TemplateResolve(srResolvers, srNoScheme, v, osValue, cwdOk)
    IN  /\ result' = x.ret
        /\ calls' = x.calls
        /\ innerArgs' = x.innerArgs
        /\ opName' = "TemplateResolve"
        /\ opArg' = v
        /\ opSet' = NoSet
        /\ panicked' = FALSE
        /\ getOut' = [r |-> NilResolver, ok |-> FALSE]
        /\ UNCHANGED <<srResolvers, srNoScheme, lastSet, splitVars, tmplVars, httpVars>>

Next ==
    \/ \E p \in BOOLEAN, k \in SetKeys, r \in SetStrategies : Set(p, k, r)
    \/ \E k \in AllKeys : GetKey(k)
    \/ \E v \in ResolveInputs, cwdOk \in BOOLEAN : Resolve(v, cwdOk)
    \/ \E v \in TemplateInputs, o \in OsValues, cwdOk \in BOOLEAN :
          ResolveTemplate(v, o, cwdOk)

Spec == Init /\ [][Next]_vars

(***************************************************************************)
(* Properties of the registry and the dispatcher.                          *)
(***************************************************************************)
\* The SchemeResolver ran: called directly, or by the TemplateResolver.
Dispatched ==
    \/ opName = "Resolve"
    \/ opName = "TemplateResolve" /\ Len(innerArgs) = 1

\* The string the SchemeResolver was given.
DispatchInput == IF opName = "Resolve" THEN opArg ELSE innerArgs[1]

\* The text before the first "://" of that string.
DispatchScheme ==
    LET v == DispatchInput
    IN  IF \E i \in 1..(Len(v) - 2) : SubSeq(v, i, i + 2) = <<":", "/", "/">>
        THEN SubSeq(v, 1,
                    (CHOOSE i \in 1..(Len(v) - 2) :
                        /\ SubSeq(v, i, i + 2) = <<":", "/", "/">>
                        /\ \A j \in 1..(i - 1) : SubSeq(v, j, j + 2) # <<":", "/", "/">>) - 1)
        ELSE <<>>

Registered(k) == k \in DOMAIN srResolvers.m

\* C1: Resolve of a string whose scheme is non-empty and not in the registry
\* fails with a SchemeError carrying the unsplit string and the scheme, and
\* invokes no strategy, the NoScheme default included.
C1_UnregisteredScheme ==
    (Dispatched /\ Len(DispatchScheme) > 0 /\ ~Registered(DispatchScheme)) =>
        /\ result = Ret(NilHandle, SchemeError(DispatchInput, DispatchScheme))
        /\ calls = <<>>

\* An unregistered scheme on a dispatcher that has a default strategy and a
\* registry with other entries.
C1_Witness ==
    /\ opName = "Resolve"
    /\ opArg = Foo \o SchemeSeparator \o <<"a">>
    /\ srNoScheme # NilResolver
    /\ Registered(FileScheme)
    /\ result.err = SchemeError(opArg, Foo)
    /\ result.handle = NilHandle
    /\ calls = <<>>

\* The strategy Resolve selects, NilResolver when it selects none.
Selected ==
    IF Len(DispatchScheme) > 0
    THEN IF Registered(DispatchScheme) THEN srResolvers.m[DispatchScheme] ELSE NilResolver
    ELSE srNoScheme

\* C2: when a strategy is selected (the registry entry of a non-empty scheme,
\* or NoScheme for an empty one), that strategy alone is invoked, once, with
\* the original unsplit string, and its (handle, error) is what Resolve returns.
C2_DelegatesOriginal ==
    (Dispatched /\ Selected # NilResolver) =>
        /\ Len(calls) = 1
        /\ calls[1].resolver = Selected
        /\ calls[1].arg = DispatchInput
        /\ result = calls[1].ret

\* The StringResolver given "string://a://a" whole, returning String("a://a").
C2_Witness ==
    /\ opName = "Resolve"
    /\ opArg = StringScheme \o SchemeSeparator \o <<"a">> \o SchemeSeparator \o <<"a">>
    /\ Len(calls) = 1
    /\ calls[1].resolver = StringResolver
    /\ calls[1].arg = opArg
    /\ result = Ret(String(<<"a">> \o SchemeSeparator \o <<"a">>), NilError)

\* C3: for an empty scheme, without a NoScheme strategy Resolve fails with a
\* NoSchemeError carrying the string and invokes nothing; with one, it
\* delegates to NoScheme and to nothing else, whatever the registry holds.
C3_EmptyScheme ==
    (Dispatched /\ Len(DispatchScheme) = 0) =>
        IF srNoScheme = NilResolver
        THEN /\ result = Ret(NilHandle, NoSchemeError(DispatchInput))
             /\ calls = <<>>
        ELSE /\ Len(calls) = 1
             /\ calls[1].resolver = srNoScheme

\* No default strategy, and a registry that has an entry under the empty key.
C3_Witness ==
    /\ opName = "Resolve"
    /\ opArg = <<"a">>
    /\ srNoScheme = NilResolver
    /\ Registered(<<>>)
    /\ result = Ret(NilHandle, NoSchemeError(<<"a">>))
    /\ calls = <<>>

\* What Get must return for k, by the history of Sets.
Expected(k) ==
    IF lastSet[k] = NilResolver
    THEN [r |-> NilResolver, ok |-> FALSE]
    ELSE [r |-> lastSet[k], ok |-> TRUE]

\* C4: on an initialized registry, Get(k) returns the strategy of the latest
\* Set of exactly k, and not-found for a key never set; so a Set of one key
\* leaves Get of every other key as it was.
C4_GetAfterSet ==
    ~srResolvers.nil =>
        /\ \A k \in AllKeys : Get(srResolvers, k) = Expected(k)
        /\ opName = "Get" => getOut = Expected(opArg)

\* Get("foo") after "foo" and "" were set, "Foo" never.
C4_Witness ==
    /\ opName = "Get"
    /\ opArg = Foo
    /\ getOut = [r |-> FileResolver(<<"/", "r">>), ok |-> TRUE]
    /\ lastSet[<<>>] = StringResolver
    /\ ~Get(srResolvers, FooUpper).ok
    /\ Cardinality(DOMAIN srResolvers.m) = 2

\* C9: Set through a nil registry pointer, or on a registry whose mapping is
\* nil, succeeds, and Get of the key on that registry then returns the
\* strategy set.
C9_SetOnUninitialized ==
    (opName = "Set" /\ (opSet.ptrNil \/ opSet.mapNil)) =>
        /\ ~panicked
        /\ opSet.mapNil => Get(srResolvers, opArg) = [r |-> opSet.r, ok |-> TRUE]

\* C8: a Resolve returns a handle and no error, or an error and no handle; a
\* template that fails to parse or to execute ends the Resolve before the
\* decorated strategy is called, and a failing dispatch or terminal resolver
\* leaves no handle.
C8_HandleOrError ==
    (opName \in {"Resolve", "TemplateResolve"}) =>
        /\ (result.handle = NilHandle) # (result.err = NilError)
        /\ \A i \in 1..Len(calls) :
              (calls[i].ret.handle = NilHandle) # (calls[i].ret.err = NilError)
        /\ (/\ opName = "TemplateResolve"
            /\ \E i \in 1..Len(opArg) : opArg[i] \in {"{{", "{{env K D D}}"}) =>
                /\ innerArgs = <<>>
                /\ calls = <<>>
                /\ result.err.kind \in {"template.ParseError", "template.ExecError"}

\* A template whose execution fails on the second default of env.
C8_Witness ==
    /\ opName = "TemplateResolve"
    /\ opArg = StringScheme \o SchemeSeparator \o <<"{{env K D D}}">>
    /\ Registered(StringScheme)
    /\ result = Ret(NilHandle, ForeignError("template.ExecError"))
    /\ innerArgs = <<>>

(***************************************************************************)
(* SpecTemplate: NumCallers goroutines call Resolve, each with its own     *)
(* string, on one TemplateResolver whose Template is set.  Parse on a      *)
(* template redefines that template and returns it: what parse hands back  *)
(* is tr.Template itself, and Execute runs whatever it was parsed from     *)
(* last.  html/template refuses to Parse a template once it has executed.  *)
(***************************************************************************)
Callers == 1..NumCallers

TemplateTexts ==
    {<<"a">>, <<"b">>, <<"c">>, <<"{{env K D}}">>, <<"{{env K D D}}">>, <<"{{">>}

InitTemplate ==
    /\ tInput \in {f \in [Callers -> TemplateTexts] :
                      \A c, d \in Callers : c # d => f[c] # f[d]}
    /\ tPc = [c \in Callers |-> "start"]
    /\ parseLock = 0
    /\ tmplText = <<>>
    /\ tmplEscaped = FALSE
    /\ tParsed = [c \in Callers |-> "nil"]
    /\ tReceived = [c \in Callers |-> <<>>]
    /\ srResolvers = EmptyMap
    /\ srNoScheme = NilResolver
    /\ lastSet = [k \in AllKeys |-> NilResolver]
    /\ IdleDisp
    /\ IdleSplit
    /\ IdleHTTP

\* tr.parseLock.Lock()
TLock(c) ==
    /\ tPc[c] = "start"
    /\ parseLock = 0
    /\ parseLock' = c
    /\ tPc' = [tPc EXCEPT ![c] = "locked"]
    /\ UNCHANGED <<tInput, tmplText, tmplEscaped, tParsed, tReceived, splitVars, dispVars, httpVars>>

\* t, err = tr.Template.Parse(v)
TParse(c) ==
    /\ tPc[c] = "locked"
    /\ IF tmplEscaped \/ ParseFails(tInput[c])
       THEN /\ tParsed' = [tParsed EXCEPT ![c] = "error"]
            /\ UNCHANGED tmplText
       ELSE /\ tParsed' = [tParsed EXCEPT ![c] = "shared"]
            /\ tmplText' = tInput[c]
    /\ tPc' = [tPc EXCEPT ![c] = "parsed"]
    /\ UNCHANGED <<tInput, parseLock, tmplEscaped, tReceived, splitVars, dispVars, httpVars>>

\* tr.parseLock.Unlock(), and Resolve's return on a parse error
TUnlock(c) ==
    /\ tPc[c] = "parsed"
    /\ parseLock' = 0
    /\ tPc' = [tPc EXCEPT ![c] = IF tParsed[c] = "error" THEN "failed" ELSE "execute"]
    /\ UNCHANGED <<tInput, tmplText, tmplEscaped, tParsed, tReceived, splitVars, dispVars, httpVars>>

\* t.Execute(&output, tr.Data) and tr.Resolver.Resolve(output.String()); t
\* is tr.Template, read without the lock
TExecute(c, osValue) ==
    /\ tPc[c] = "execute"
    /\ tmplEscaped' = TRUE
    /\ LET x == Execute(tmplText, osValue)
       IN  IF x.ok
           THEN /\ tReceived' = [tReceived EXCEPT ![c] = Append(@, x.out)]
                /\ tPc' = [tPc EXCEPT ![c] = "done"]
           ELSE /\ tPc' = [tPc EXCEPT ![c] = "failed"]
                /\ UNCHANGED tReceived
    /\ UNCHANGED <<tInput, parseLock, tmplText, tParsed, splitVars, dispVars, httpVars>>

NextTemplate ==
    \E c \in Callers :
        \/ TLock(c)
        \/ TParse(c)
        \/ TUnlock(c)
        \/ \E o \in OsValues : TExecute(c, o)

SpecTemplate == InitTemplate /\ [][NextTemplate]_vars

\* C6: with the parse step alone under the mutex, every caller's decorated
\* strategy receives the expansion of that caller's own string.
C6_OwnExpansion ==
    \A c \in Callers :
        \A i \in 1..Len(tReceived[c]) :
            \E o \in OsValues : tReceived[c][i] = Execute(tInput[c], o).out

\* The parse step is serialized: at most one caller is between Lock and Unlock.
ParseSerialized ==
    \A c, d \in Callers :
        (tPc[c] \in {"locked", "parsed"} /\ tPc[d] \in {"locked", "parsed"}) => c = d

(***************************************************************************)
(* SpecHTTP: one caller using an HTTP handle: Open, reading and closing    *)
(* the stream it returns, and WriteTo.  Every Open and WriteTo is a fresh  *)
(* transaction, which fails in transport or completes with a status and a  *)
(* body.                                                                   *)
(***************************************************************************)
MinSuccess == 200
MaxSuccess == 299

Statuses == {199, 200, 204, 299, 300, 404}

Bodies == {<<>>, <<1>>, <<1, 2>>, <<1, 2, 3>>}

URLs == {HTTPScheme \o SchemeSeparator \o <<"a">>, HTTPSScheme \o SchemeSeparator \o <<"b">>}

\* io.Copy(ioutil.Discard, b): b read to its end
Drain(b) == [b EXCEPT !.pos = Len(b.data)]

\* b.Close()
CloseBody(b) == [b EXCEPT !.closed = TRUE, !.posAtClose = b.pos]

\* A status test that lets 300 through.
IsFailureAbove300(code) == code < MinSuccess \/ code > 300

\* response.StatusCode < 200 || response.StatusCode > 299
IsFailure(code) == code < MinSuccess \/ code > MaxSuccess

\* func (doc drainOnClose) Close() error
DrainOnCloseClose(b) == CloseBody(Drain(b))

InitHTTP ==
    /\ hHandle \in {HTTPResolve(HTTPResolver(<<>>), u).handle : u \in URLs}
    /\ hOp = "none"
    /\ resp = [failed |-> FALSE, status |-> 0]
    /\ body = NoBody
    /\ streamOpen = FALSE
    /\ openRet = [stream |-> FALSE, err |-> NoHTTPError]
    /\ writeRet = [n |-> 0, err |-> NoHTTPError]
    /\ sink = <<>>
    /\ srResolvers = EmptyMap
    /\ srNoScheme = NilResolver
    /\ lastSet = [k \in AllKeys |-> NilResolver]
    /\ IdleDisp
    /\ IdleSplit
    /\ IdleTmpl

\* func (h HTTP) Open() (io.ReadCloser, error); failed, status and data are
\* what h.transact() yields
Open(failed, status, data) ==
    /\ ~streamOpen
    /\ hOp' = "Open"
    /\ resp' = [failed |-> failed, status |-> IF failed THEN 0 ELSE status]
    /\ writeRet' = [n |-> 0, err |-> NoHTTPError]
    /\ sink' = <<>>
    /\ LET b == [data |-> data, pos |-> 0, closed |-> FALSE, posAtClose |-> 0]
       IN  IF failed
           THEN /\ body' = NoBody
                /\ openRet' = [stream |-> FALSE, err |-> TransportError]
                /\ streamOpen' = FALSE
           ELSE IF IsFailure(status)
           THEN /\ body' = CloseBody(Drain(b))
                /\ openRet' = [stream |-> FALSE, err |-> HTTPError(hHandle.str, status)]
                /\ streamOpen' = FALSE
           ELSE /\ body' = b
                /\ openRet' = [stream |-> TRUE, err |-> NoHTTPError]
                /\ streamOpen' = TRUE
    /\ UNCHANGED <<hHandle, splitVars, dispVars, tmplVars>>

\* The caller reads one byte of the stream Open returned.
Read ==
    /\ streamOpen
    /\ body.pos < Len(body.data)
    /\ body' = [body EXCEPT !.pos = @ + 1]
    /\ hOp' = "Read"
    /\ UNCHANGED <<hHandle, resp, streamOpen, openRet, writeRet, sink,
                   splitVars, dispVars, tmplVars>>

\* The caller closes the stream Open returned.
Close ==
    /\ streamOpen
    /\ body' = DrainOnCloseClose(body)
    /\ streamOpen' = FALSE
    /\ hOp' = "Close"
    /\ UNCHANGED <<hHandle, resp, openRet, writeRet, sink, splitVars, dispVars, tmplVars>>

\* func (h HTTP) WriteTo(w io.Writer) (int64, error): the body is copied to w
\* and closed, whatever the status
WriteTo(failed, status, data) ==
    /\ ~streamOpen
    /\ hOp' = "WriteTo"
    /\ resp' = [failed |-> failed, status |-> IF failed THEN 0 ELSE status]
    /\ openRet' = [stream |-> FALSE, err |-> NoHTTPError]
    /\ streamOpen' = FALSE
    /\ LET b == [data |-> data, pos |-> 0, closed |-> FALSE, posAtClose |-> 0]
       IN  IF failed
           THEN /\ body' = NoBody
                /\ sink' = <<>>
                /\ writeRet' = [n |-> 0, err |-> TransportError]
           ELSE /\ body' = CloseBody(Drain(b))
                /\ sink' = data
                /\ writeRet' = [n |-> Len(data), err |-> NoHTTPError]
    /\ UNCHANGED <<hHandle, splitVars, dispVars, tmplVars>>

NextHTTP ==
    \/ \E f \in BOOLEAN, st \in Statuses, d \in Bodies : Open(f, st, d)
    \/ Read
    \/ Close
    \/ \E f \in BOOLEAN, st \in Statuses, d \in Bodies : WriteTo(f, st, d)

SpecHTTP == InitHTTP /\ [][NextHTTP]_vars

Drained == body.closed /\ body.pos = Len(body.data) /\ body.posAtClose = Len(body.data)

\* C7: when the transaction completes with a non-2xx status, WriteTo returns
\* an HTTP-status-error carrying the URL and the status code, and writes none
\* of the response body to the sink.
C7_WriteToStatusError ==
    (hOp = "WriteTo" /\ ~resp.failed /\ ~(resp.status \in 200..299)) =>
        /\ writeRet.err = HTTPError(hHandle.str, resp.status)
        /\ sink = <<>>

\* C10: Open on a status outside 200..299 returns no stream and an
\* HTTP-status-error with the URL and the status, the body read to its end and
\* then closed; on a status inside 200..299 it returns a stream and no error
\* and leaves the body open; closing that stream drains what is unread and
\* then closes the body.
C10_OpenStatus ==
    /\ (hOp = "Open" /\ ~resp.failed /\ ~(resp.status \in 200..299)) =>
          /\ openRet = [stream |-> FALSE, err |-> HTTPError(hHandle.str, resp.status)]
          /\ Drained
    /\ (hOp = "Open" /\ ~resp.failed /\ resp.status \in 200..299) =>
          /\ openRet = [stream |-> TRUE, err |-> NoHTTPError]
          /\ ~body.closed
          /\ body.pos = 0
    /\ hOp = "Close" => Drained

\* Open on a 404 with a body of two bytes.
C10_Witness ==
    /\ hOp = "Open"
    /\ resp = [failed |-> FALSE, status |-> 404]
    /\ Len(body.data) = 2
    /\ openRet = [stream |-> FALSE, err |-> HTTPError(hHandle.str, 404)]
    /\ Drained

(***************************************************************************)
(* SpecSplit: Split applied to every bare string and to every              *)
(* scheme + "://" + value within the bounds.                               *)
(***************************************************************************)
SplitStrings == StringsUpTo(SplitChars, MaxLen)

InitSplit ==
    /\ splitIn \in {<<s, v>> : s \in SplitStrings, v \in SplitStrings}
    /\ splitPc = "start"
    /\ splitOut = <<<<>>, <<>>>>
    /\ srResolvers = EmptyMap
    /\ srNoScheme = NilResolver
    /\ lastSet = [k \in AllKeys |-> NilResolver]
    /\ IdleDisp
    /\ IdleTmpl
    /\ IdleHTTP

\* Split(value) for a value that holds no separator.
SplitBare ==
    /\ splitPc = "start"
    /\ ~Contains(splitIn[2], SchemeSeparator)
    /\ splitOut' = Split(splitIn[2])
    /\ splitPc' = "bare"
    /\ UNCHANGED <<splitIn, dispVars, tmplVars, httpVars>>

\* Split(scheme + "://" + value) for a scheme that holds no separator.
SplitJoined ==
    /\ splitPc = "start"
    /\ ~Contains(splitIn[1], SchemeSeparator)
    /\ splitOut' = Split(splitIn[1] \o SchemeSeparator \o splitIn[2])
    /\ splitPc' = "joined"
    /\ UNCHANGED <<splitIn, dispVars, tmplVars, httpVars>>

NextSplit == SplitBare \/ SplitJoined

SpecSplit == InitSplit /\ [][NextSplit]_vars

\* C5: a string without "://" splits into ("", s), and scheme + "://" + value,
\* the scheme holding no "://", splits into (scheme, value): the cut is at the
\* first separator, nothing trimmed.
C5_SplitFirstSeparator ==
    /\ splitPc = "bare" => splitOut = <<<<>>, splitIn[2]>>
    /\ splitPc = "joined" => splitOut = splitIn

\* A joined input whose scheme ends in ":" and whose value holds "://" itself.
C5_Witness ==
    /\ splitPc = "joined"
    /\ Len(splitIn[1]) > 0
    /\ splitIn[1][Len(splitIn[1])] = ":"
    /\ Contains(splitIn[2], SchemeSeparator)
    /\ splitOut = splitIn

====
